---- MODULE Spec2Model ----
(***************************************************************************)
(* Revenue & cash forecasting engine of buzz-radar-cfo.                    *)
(*                                                                         *)
(* Part 1: backend/services/scenarios.py (parse_deals,                     *)
(* allocate_deal_to_month, calculate_scenarios).                           *)
(*                                                                         *)
(* Conventions                                                             *)
(*  - A currency amount of the input is an integer count of minor units    *)
(*    (0.01).  The accumulators of calculate_scenarios are kept in         *)
(*    thousandths (0.001), so value * 0.8 and value * likelihood / 10 are  *)
(*    exact; round(x, 2) is the only place precision is lost.              *)
(*  - A value of a raw pipeline dict is tagged with its Python type:       *)
(*    [t |-> "none"], [t |-> "num", v |-> n], [t |-> "str"] ...            *)
(*  - A month key 'YYYY-MM' is the pair <<year, month>>; Python's string   *)
(*    comparison of two keys is the lexicographic order KeyLess.           *)
(***************************************************************************)
EXTENDS Integers, Sequences, FiniteSets, TLC

VARIABLES
    pipeline,       \* calculate_scenarios argument: list of raw deal dicts
    months,         \* calculate_scenarios argument: number of months
    today,          \* date.today(), as <<year, month>>
    pc,             \* position inside calculate_scenarios
    deals,          \* parse_deals(pipeline)
    target_months,  \* list of month keys
    monthly_data,   \* month index -> accumulators and allocated deals
    di,             \* index of the next deal of the allocation loop
    result,         \* returned dict
    error           \* exception that left calculate_scenarios, or "none"

scenarioVars == <<pipeline, months, today, pc, deals, target_months, monthly_data,
                  di, result, error>>

\* gap_analysis.py
VARIABLES
    entry,            \* the function called: "analyse_gap" or "find_deals_to_close_gap"
    base_projection,  \* analyse_gap argument, in thousandths
    target,           \* analyse_gap argument, in thousandths
    gap_pipeline,     \* pipeline argument: list of deal dicts
    gpc,              \* position inside analyse_gap / find_deals_to_close_gap
    gap_analysis,     \* dict returned by calculate_gap
    gap,              \* find_deals_to_close_gap argument, in thousandths
    scored_deals,     \* sorted list of scored actionable deals
    selected,         \* deals selected so far
    cumulative,       \* sum of their weighted_value, in minor units
    deals_to_close    \* list returned by find_deals_to_close_gap

gapVars == <<entry, base_projection, target, gap_pipeline, gpc, gap_analysis,
             gap, scored_deals, selected, cumulative, deals_to_close>>

NoAnalysis ==
    [target |-> 0, base_projection |-> 0, gap |-> 0, gap_percentage |-> 0,
     status |-> "none", surplus |-> 0]

\* gap_analysis.py is not running
GapIdle ==
    /\ entry = "none"
    /\ base_projection = 0
    /\ target = 0
    /\ gap_pipeline = <<>>
    /\ gpc = "idle"
    /\ gap_analysis = NoAnalysis
    /\ gap = 0
    /\ scored_deals = <<>>
    /\ selected = <<>>
    /\ cumulative = 0
    /\ deals_to_close = <<>>

\* upload_routes.py, history_sync.py: the cash ledger and its snapshots
VARIABLES
    ledger,           \* committed rows of bank_transactions
    snapshots,        \* committed rows of monthly_cash_snapshots
    cash_op,          \* the request handled last
    stats,            \* dict returned by calculate_monthly_cash_snapshots
    rpc,              \* per concurrent recompute: position inside it
    visible,          \* per recompute: rows its DELETE statement read
    deleted,          \* per recompute: rows deleted, not yet committed
    added,            \* per recompute: rows inserted, not yet committed
    current,          \* per recompute: <<current_year, current_month>>
    running_balance,  \* per recompute: running balance
    seen,             \* rows a reader read last
    preceding         \* committed snapshot rows before the recomputes began

ledgerVars == <<ledger, snapshots, cash_op>>

\* calculate_monthly_cash_snapshots was not called
NoStats == [months_calculated |-> 0, errors |-> <<"not called">>]

recomputeVars == <<rpc, visible, deleted, added, current, running_balance,
                   seen, preceding>>

cashVars == <<ledgerVars, recomputeVars, stats>>

\* the two concurrent recomputes
Recomputes == {1, 2}

\* no concurrent recompute is running
RecomputeIdle ==
    /\ rpc = [p \in Recomputes |-> "idle"]
    /\ visible = [p \in Recomputes |-> {}]
    /\ deleted = [p \in Recomputes |-> {}]
    /\ added = [p \in Recomputes |-> {}]
    /\ current = [p \in Recomputes |-> <<0, 0>>]
    /\ running_balance = [p \in Recomputes |-> 0]
    /\ seen = {}
    /\ preceding = {}

\* no ledger request is handled
CashIdle ==
    /\ ledger = {}
    /\ snapshots = {}
    /\ cash_op = "none"
    /\ stats = NoStats
    /\ RecomputeIdle

\* metrics_routes.py: runway_confidence
VARIABLES
    window,           \* snapshots of the last 12 months, by snapshot_date
    current_cash,     \* get_current_cash_position(), in minor units
    rwpc,             \* position inside runway_confidence
    response          \* the JSON response

runwayVars == <<window, current_cash, rwpc, response>>

NoResponse ==
    [status_code |-> 0, success |-> FALSE, fields |-> {}, error |-> "",
     is_profitable |-> FALSE, best_case_months |-> 0, expected_months |-> 0, worst_case_months |-> 0]

\* runway_confidence is not running
RunwayIdle ==
    /\ window = <<>>
    /\ current_cash = 0
    /\ rwpc = "idle"
    /\ response = NoResponse

\* the variables of the other components
otherVars == <<gapVars, cashVars, runwayVars>>

vars == <<scenarioVars, otherVars>>

----------------------------------------------------------------------------
(* Bounds of the model *)

MaxDeals == 2

----------------------------------------------------------------------------
(* Program constants *)

\* routes clamp the horizon: months = max(1, min(months, 6))
MinMonths == 1
MaxMonths == 6

\* likelihood threshold of the optimistic scenario
OptimisticThreshold == 5

\* 0.8, the Verbal Agreement weight, in tenths
VerbalWeight == 8

\* likelihood / 10.0
LikelihoodScale == 10

\* digits kept by round(x, 2): one minor unit is 10 thousandths
MinorUnit == 10

----------------------------------------------------------------------------
(* Raw values of a pipeline dict *)

\* the key is missing from the dict
Absent == [t |-> "absent", v |-> 0, y |-> 0, m |-> 0, d |-> 0]

NoneV == [t |-> "none", v |-> 0, y |-> 0, m |-> 0, d |-> 0]

\* a number (int or float); amounts count minor units
Num(n) == [t |-> "num", v |-> n, y |-> 0, m |-> 0, d |-> 0]

\* the empty string
EmptyStr == [t |-> "empty", v |-> 0, y |-> 0, m |-> 0, d |-> 0]

\* a non-empty string that is neither a number nor of the form YYYY-MM-DD
Text == [t |-> "text", v |-> 0, y |-> 0, m |-> 0, d |-> 0]

\* the string 'YYYY-MM-DD' (its fields need not form a valid date)
Iso(yy, mm, dd) == [t |-> "iso", v |-> 0, y |-> yy, m |-> mm, d |-> dd]

\* Python truthiness of a raw value: None, 0, 0.0 and '' are falsy
Truthy(x) ==
    CASE x.t = "none" -> FALSE
      [] x.t = "absent" -> FALSE
      [] x.t = "empty" -> FALSE
      [] x.t = "num" -> x.v # 0
      [] OTHER -> TRUE

\* float(x) / int(x) succeed on a number only
Converts(x) == x.t = "num"

ConvertError(x) == IF x.t = "none" THEN "TypeError" ELSE "ValueError"

\* d.get(key, default)
Get(x, default) == IF x.t = "absent" THEN default ELSE x

----------------------------------------------------------------------------
(* parse_deals *)

\* the value handed to float() for best_case, when d.get('best_case') is truthy
BestCaseArg(d) == Get(d.best_case, Get(d.deal_value, Num(0)))

\* The exception raised while the Deal of one dict is built, or "none".
\* The keyword arguments are evaluated in order: deal_value, likelihood,
\* best_case.
DealError(d) ==
    IF ~Converts(Get(d.deal_value, Num(0)))
      THEN ConvertError(Get(d.deal_value, Num(0)))
    ELSE IF ~Converts(Get(d.likelihood, Num(0)))
      THEN ConvertError(Get(d.likelihood, Num(0)))
    ELSE IF Truthy(d.best_case) /\ ~Converts(BestCaseArg(d))
      THEN ConvertError(BestCaseArg(d))
    ELSE "none"

\* Deal(...) of one dict that converts; name is the dict's position
ParseDeal(d, i) ==
    [name |-> i,
     stage |-> d.stage,
     deal_value |-> Get(d.deal_value, Num(0)).v,
     likelihood |-> Get(d.likelihood, Num(0)).v,
     expected_close |-> Get(d.expected_close, NoneV),
     best_case |-> IF Truthy(d.best_case) THEN Num(BestCaseArg(d).v) ELSE NoneV]

\* exception of parse_deals: that of the first dict that fails
ParseDealsError(p) ==
    IF \A i \in 1..Len(p) : DealError(p[i]) = "none"
      THEN "none"
      ELSE LET k == CHOOSE i \in 1..Len(p) :
                      /\ DealError(p[i]) # "none"
                      /\ \A j \in 1..(i - 1) : DealError(p[j]) = "none"
           IN DealError(p[k])

parse_deals(p) == [i \in 1..Len(p) |-> ParseDeal(p[i], i)]

----------------------------------------------------------------------------
(* dates and month keys *)

IsLeap(yy) == (yy % 4 = 0 /\ yy % 100 # 0) \/ yy % 400 = 0

DaysInMonth(yy, mm) ==
    CASE mm \in {4, 6, 9, 11} -> 30
      [] mm = 2 -> IF IsLeap(yy) THEN 29 ELSE 28
      [] OTHER -> 31

\* date.fromisoformat(s) returns a date (otherwise it raises ValueError)
IsoParses(s) ==
    /\ s.t = "iso"
    /\ s.y \in 1..9999
    /\ s.m \in 1..12
    /\ s.d \in 1..DaysInMonth(s.y, s.m)

\* get_month_key: strftime('%Y-%m')
get_month_key(dt) == <<dt.y, dt.m>>

\* a < b on two 'YYYY-MM' strings
KeyLess(a, b) == a[1] < b[1] \/ (a[1] = b[1] /\ a[2] < b[2])

\* the None returned by allocate_deal_to_month
NoMonth == <<0, 0>>

\* the month that follows a first-of-month date
NextMonth(k) == IF k[2] = 12 THEN <<k[1] + 1, 1>> ELSE <<k[1], k[2] + 1>>

RECURSIVE MonthKeys(_, _)

\* variant: range(months + 1)
MonthKeys_OneMore(k, n) ==
    [i \in 1..(n + 1) |->
        LET num == 12 * k[1] + (k[2] - 1) + (i - 1)
        IN <<num \div 12, (num % 12) + 1>>]

\* the n consecutive month keys that start at k
MonthKeys(k, n) == IF n = 0 THEN <<>> ELSE <<k>> \o MonthKeys(NextMonth(k), n - 1)

InList(k, list) == \E i \in 1..Len(list) : list[i] = k

----------------------------------------------------------------------------
(* allocate_deal_to_month *)

\* variant: a close date before the first target month is excluded
allocate_deal_to_month_DropsPast(deal, tm) ==
    IF ~Truthy(deal.expected_close)
      THEN IF deal.stage = "Won"
             THEN (IF Len(tm) > 0 THEN tm[1] ELSE NoMonth)
             ELSE NoMonth
    ELSE IF ~IsoParses(deal.expected_close)
      THEN NoMonth
    ELSE LET month_key == get_month_key(deal.expected_close)
         IN IF InList(month_key, tm) THEN month_key ELSE NoMonth

\* variant: a close date after the last target month is put in the last month
allocate_deal_to_month_ClampsLate(deal, tm) ==
    IF ~Truthy(deal.expected_close)
      THEN IF deal.stage = "Won"
             THEN (IF Len(tm) > 0 THEN tm[1] ELSE NoMonth)
             ELSE NoMonth
    ELSE IF ~IsoParses(deal.expected_close)
      THEN NoMonth
    ELSE LET month_key == get_month_key(deal.expected_close)
         IN IF KeyLess(month_key, tm[1]) THEN tm[1]
            ELSE IF InList(month_key, tm) THEN month_key
            ELSE tm[Len(tm)]

\* variant: a deal without close date goes to the first month at any stage
allocate_deal_to_month_AnyStage(deal, tm) ==
    IF ~Truthy(deal.expected_close)
      THEN (IF Len(tm) > 0 THEN tm[1] ELSE NoMonth)
    ELSE IF ~IsoParses(deal.expected_close)
      THEN NoMonth
    ELSE LET month_key == get_month_key(deal.expected_close)
         IN IF KeyLess(month_key, tm[1]) THEN tm[1]
            ELSE IF InList(month_key, tm) THEN month_key
            ELSE NoMonth

\* variant: a close date that does not parse is put in the first month
allocate_deal_to_month_BadDateFirst(deal, tm) ==
    IF ~Truthy(deal.expected_close)
      THEN IF deal.stage = "Won"
             THEN (IF Len(tm) > 0 THEN tm[1] ELSE NoMonth)
             ELSE NoMonth
    ELSE IF ~IsoParses(deal.expected_close)
      THEN tm[1]
    ELSE LET month_key == get_month_key(deal.expected_close)
         IN IF KeyLess(month_key, tm[1]) THEN tm[1]
            ELSE IF InList(month_key, tm) THEN month_key
            ELSE NoMonth

allocate_deal_to_month(deal, tm) ==
    IF ~Truthy(deal.expected_close)
      THEN IF deal.stage = "Won"
             THEN (IF Len(tm) > 0 THEN tm[1] ELSE NoMonth)
             ELSE NoMonth
    ELSE IF ~IsoParses(deal.expected_close)
      THEN NoMonth                                   \* except ValueError
    ELSE LET month_key == get_month_key(deal.expected_close)
         IN IF KeyLess(month_key, tm[1]) THEN tm[1]
            ELSE IF InList(month_key, tm) THEN month_key
            ELSE NoMonth

----------------------------------------------------------------------------
(* calculate_scenarios: the body of the allocation loop *)

\* a minor-unit amount in thousandths
Mills(c) == c * MinorUnit

\* variant: a Verbal Agreement deal weighted by its likelihood, not by 0.8
ConservativeAdd_ByLikelihood(deal) ==
    IF deal.stage = "Won" THEN Mills(deal.deal_value)
    ELSE IF deal.stage = "Verbal Agreement"
      THEN (Mills(deal.deal_value) * deal.likelihood) \div LikelihoodScale
    ELSE 0

\* Conservative: Won + (Verbal Agreement * 0.8)
ConservativeAdd(deal) ==
    IF deal.stage = "Won" THEN Mills(deal.deal_value)
    ELSE IF deal.stage = "Verbal Agreement"
      THEN (Mills(deal.deal_value) * VerbalWeight) \div 10
    ELSE 0

\* variant: a Won deal counted in full, whatever its likelihood
BaseAdd_WonInFull(deal) ==
    IF deal.stage = "Won" THEN Mills(deal.deal_value)
    ELSE (Mills(deal.deal_value) * deal.likelihood) \div LikelihoodScale

\* Base: deal_value * (likelihood / 10)
BaseAdd(deal) == (Mills(deal.deal_value) * deal.likelihood) \div LikelihoodScale

\* best = deal.best_case if deal.best_case else deal.deal_value
Best(deal) == IF Truthy(deal.best_case) THEN deal.best_case.v ELSE deal.deal_value

\* Optimistic: best_case for deals with likelihood >= 5, Won deals always
OptimisticAdd(deal) ==
    IF deal.likelihood >= OptimisticThreshold THEN Mills(Best(deal))
    ELSE IF deal.stage = "Won" THEN Mills(deal.deal_value)
    ELSE 0

DealInfo(deal) ==
    [name |-> deal.name, stage |-> deal.stage,
     deal_value |-> deal.deal_value, likelihood |-> deal.likelihood]

\* position of a month key in target_months
IndexOf(k, tm) == CHOOSE i \in 1..Len(tm) : tm[i] = k

EmptyMonth == [conservative |-> 0, base |-> 0, optimistic |-> 0, deals |-> <<>>]

\* variant: every deal is added to the first target month
AddDeal_FirstMonth(md, tm, deal, k) ==
    [md EXCEPT ![1] =
        [conservative |-> @.conservative + ConservativeAdd(deal),
         base |-> @.base + BaseAdd(deal),
         optimistic |-> @.optimistic + OptimisticAdd(deal),
         deals |-> Append(@.deals, DealInfo(deal))]]

\* monthly_data after the loop body ran for a deal allocated to month k
AddDeal(md, tm, deal, k) ==
    LET i == IndexOf(k, tm)
    IN [md EXCEPT ![i] =
          [conservative |-> @.conservative + ConservativeAdd(deal),
           base |-> @.base + BaseAdd(deal),
           optimistic |-> @.optimistic + OptimisticAdd(deal),
           deals |-> Append(@.deals, DealInfo(deal))]]

----------------------------------------------------------------------------
(* calculate_scenarios: the result *)

\* round(x, 2) of a non-negative amount of thousandths, in minor units.
\* The float is rounded to the nearest minor unit; an amount whose decimal
\* value lies exactly halfway is stored as a binary float just below, just
\* above or exactly on the tie, so either neighbour can be the result.
Round2(x) ==
    LET r == x % MinorUnit
        lo == x \div MinorUnit
    IN IF 2 * r < MinorUnit THEN {lo}
       ELSE IF 2 * r > MinorUnit THEN {lo + 1}
       ELSE {lo, lo + 1}

\* the dicts projections.append(...) can add for month i
Projection(md, tm, i) ==
    {[month |-> tm[i], conservative |-> c, base |-> b, optimistic |-> o] :
        c \in Round2(md[i].conservative),
        b \in Round2(md[i].base),
        o \in Round2(md[i].optimistic)}

RECURSIVE Projections(_, _, _)
\* the lists of the first n month dicts
Projections(md, tm, n) ==
    IF n = 0 THEN {<<>>}
    ELSE {Append(s, q) : s \in Projections(md, tm, n - 1),
                         q \in Projection(md, tm, n)}

RECURSIVE SumField(_, _, _)
\* totals[f] after the first n months were added, unrounded
SumField(md, f, n) == IF n = 0 THEN 0 ELSE SumField(md, f, n - 1) + md[n][f]

Totals(md, n) ==
    {[conservative |-> c, base |-> b, optimistic |-> o] :
        c \in Round2(SumField(md, "conservative", n)),
        b \in Round2(SumField(md, "base", n)),
        o \in Round2(SumField(md, "optimistic", n))}

\* the dicts calculate_scenarios can return
Results(md, tm, n) ==
    {[months |-> ps,
      totals |-> t,
      deals_by_month |-> [i \in 1..Len(tm) |-> md[i].deals],
      projection_period |-> [start |-> tm[1], end |-> tm[Len(tm)],
                             num_months |-> n]] :
        ps \in Projections(md, tm, Len(tm)), t \in Totals(md, Len(tm))}

NoResult ==
    [months |-> <<>>,
     totals |-> [conservative |-> 0, base |-> 0, optimistic |-> 0],
     deals_by_month |-> <<>>,
     projection_period |-> [start |-> NoMonth, end |-> NoMonth, num_months |-> 0]]

----------------------------------------------------------------------------
(* Inputs *)

Stages == {"Won", "Verbal Agreement", "Proposal"}

\* date.today(): a horizon inside one year, and one that crosses December
Todays == {<<2025, 11>>, <<2025, 12>>}

RawDeal(st, val, lik, close, best) ==
    [stage |-> st, deal_value |-> val, likelihood |-> lik,
     expected_close |-> close, best_case |-> best]

\* deals that close in December 2025, over every stage, value, likelihood
\* and best case
ValueDeals ==
    {RawDeal(st, Num(val), Num(lik), Iso(2025, 12, 15), best) :
        st \in Stages, val \in {4, 125}, lik \in {0, 4, 5, 10},
        best \in {Absent, Num(0), Num(200)}}

\* deals over every stage and close date: none, empty, not a date, not a
\* day of the calendar, before, inside and after the horizon
CloseDates ==
    {Absent, NoneV, EmptyStr, Text, Iso(2026, 2, 30), Iso(2025, 10, 1),
     Iso(2025, 11, 30), Iso(2026, 1, 15), Iso(2026, 5, 31), Iso(2026, 7, 1)}

DateDeals ==
    {RawDeal(st, Num(125), Num(5), close, Absent) :
        st \in Stages, close \in CloseDates}

\* dicts with one malformed numeric field
MalformedDeals ==
    {RawDeal("Won", Text, Num(10), NoneV, Absent),
     RawDeal("Won", Num(125), Text, NoneV, Absent),
     RawDeal("Won", Num(125), Num(10), NoneV, Text),
     RawDeal("Won", NoneV, Num(10), NoneV, Absent)}

RawDeals == ValueDeals \cup DateDeals \cup MalformedDeals

\* the deals that accompany the deal under study in a pipeline
Companions ==
    {RawDeal("Won", Num(125), Num(10), Absent, Absent),
     RawDeal("Verbal Agreement", Num(4), Num(5), Iso(2025, 12, 15), Num(200)),
     RawDeal("Proposal", Num(125), Num(4), Iso(2026, 1, 15), Absent),
     RawDeal("Proposal", Num(4), Num(5), Text, Absent),
     RawDeal("Won", Num(4), Text, Iso(2025, 12, 15), Absent)}

\* the lists of n companions
CompanionLists(n) == [1..n -> Companions]

\* list s with x inserted so that it becomes element k
InsertAt(s, k, x) == SubSeq(s, 1, k - 1) \o <<x>> \o SubSeq(s, k, Len(s))

\* pipelines of at most MaxDeals deals: one deal, at any position, ranges
\* over RawDeals and the others over Companions
GeneralPipelines ==
    {<<>>} \cup
    UNION {{InsertAt(s, k, x) : s \in CompanionLists(n - 1), k \in 1..n,
                                x \in RawDeals} :
           n \in 1..MaxDeals}

\* a small deal that closes in the k-th month of the longest horizon that
\* starts in November 2025
LadderDeal(k, st) ==
    LET key == MonthKeys(<<2025, 11>>, MaxMonths)[k]
    IN RawDeal(st, Num(4), Num(1), Iso(key[1], key[2], 15), Absent)

\* one such deal for every month of that horizon
LadderPipelines ==
    {[k \in 1..MaxMonths |-> LadderDeal(k, st[k])] :
        st \in [1..MaxMonths -> {"Verbal Agreement", "Proposal"}]}

Pipelines == GeneralPipelines \cup LadderPipelines

----------------------------------------------------------------------------
(* calculate_scenarios as a state machine *)

Init ==
    /\ pipeline \in Pipelines
    /\ months \in MinMonths..MaxMonths
    /\ today \in Todays
    /\ pc = "start"
    /\ deals = <<>>
    /\ target_months = <<>>
    /\ monthly_data = <<>>
    /\ di = 1
    /\ result = NoResult
    /\ error = "none"
    /\ GapIdle
    /\ CashIdle
    /\ RunwayIdle

\* deals = parse_deals(pipeline)
ParseDeals ==
    /\ pc = "start"
    /\ ParseDealsError(pipeline) = "none"
    /\ deals' = parse_deals(pipeline)
    /\ pc' = "months"
    /\ UNCHANGED <<pipeline, months, today, target_months, monthly_data, di,
                   result, error>>
    /\ UNCHANGED otherVars

\* float() or int() raises inside parse_deals; nothing catches it
ParseDealsRaises ==
    /\ pc = "start"
    /\ ParseDealsError(pipeline) # "none"
    /\ error' = ParseDealsError(pipeline)
    /\ pc' = "raised"
    /\ UNCHANGED <<pipeline, months, today, deals, target_months,
                   monthly_data, di, result>>
    /\ UNCHANGED otherVars

\* target_months and the zeroed monthly_data
GenerateTargetMonths ==
    /\ pc = "months"
    /\ target_months' = MonthKeys(today, months)
    /\ monthly_data' = [i \in 1..Len(target_months') |-> EmptyMonth]
    /\ di' = 1
    /\ pc' = "allocate"
    /\ UNCHANGED <<pipeline, months, today, deals, result, error>>
    /\ UNCHANGED otherVars

\* one iteration of `for deal in deals`
AllocateDeal ==
    /\ pc = "allocate"
    /\ di <= Len(deals)
    /\ LET deal == deals[di]
           month == allocate_deal_to_month(deal, target_months)
       IN monthly_data' = IF month = NoMonth
                            THEN monthly_data
                            ELSE AddDeal(monthly_data, target_months, deal, month)
    /\ di' = di + 1
    /\ UNCHANGED <<pipeline, months, today, pc, deals, target_months,
                   result, error>>
    /\ UNCHANGED otherVars

\* the loop over target_months and the return
BuildResult ==
    /\ pc = "allocate"
    /\ di > Len(deals)
    /\ result' \in Results(monthly_data, target_months, months)
    /\ pc' = "done"
    /\ UNCHANGED <<pipeline, months, today, deals, target_months,
                   monthly_data, di, error>>
    /\ UNCHANGED otherVars

Next ==
    \/ ParseDeals
    \/ ParseDealsRaises
    \/ GenerateTargetMonths
    \/ AllocateDeal
    \/ BuildResult

Spec == Init /\ [][Next]_vars

----------------------------------------------------------------------------
(* Vocabulary of the properties *)

RECURSIVE SeqSum(_)
SeqSum(s) == IF s = <<>> THEN 0 ELSE Head(s) + SeqSum(Tail(s))

Abs(x) == IF x < 0 THEN -x ELSE x

Done == pc = "done"

\* the month the code allocated pipeline deal j to
MonthOf(j) == allocate_deal_to_month(deals[j], target_months)

\* the names of the deals listed for month i in the result
BucketNames(i) ==
    {result.deals_by_month[i][n].name : n \in 1..Len(result.deals_by_month[i])}

\* pipeline deal j is listed in some month of the result
Listed(j) == \E i \in 1..Len(result.deals_by_month) : j \in BucketNames(i)

\* r (minor units) is a value nearest to x (thousandths)
IsRounded(r, x) == 2 * Abs(MinorUnit * r - x) <= MinorUnit

\* calendar position of a year and month
MonthNumber(yy, mm) == 12 * yy + mm

\* the raw expected_close of pipeline deal j
Close(j) == pipeline[j].expected_close

\* the raw expected_close of pipeline deal j is a real calendar date
ClosesOnDate(j) ==
    /\ Close(j).t = "iso"
    /\ Close(j).m \in 1..12
    /\ Close(j).d \in 1..DaysInMonth(Close(j).y, Close(j).m)

\* calendar distance, in months, from the first target month to the close
\* month of deal j
MonthsAhead(j) ==
    MonthNumber(Close(j).y, Close(j).m) - MonthNumber(today[1], today[2])

----------------------------------------------------------------------------
(* C1 *)

\* value * likelihood / 10 of pipeline deal j, in thousandths
ExpectedBase(j) == pipeline[j].deal_value.v * pipeline[j].likelihood.v

BaseOfMonth(i) ==
    SeqSum([j \in 1..Len(pipeline) |->
              IF MonthOf(j) = target_months[i] THEN ExpectedBase(j) ELSE 0])

\* C1: in every result, each month's base figure is the sum of
\* deal_value * likelihood / 10 over the deals allocated to that month,
\* whatever their stage, computed before the rounding to 2 decimals; the
\* reported figure is that sum rounded.
C1_BaseIsWeightedSum ==
    Done =>
        \A i \in 1..months :
            /\ monthly_data[i].base = BaseOfMonth(i)
            /\ IsRounded(result.months[i].base, BaseOfMonth(i))

\* a month holds a Won deal of likelihood below 10 and a deal of another
\* stage, and its base figure is not zero
C1_Witness ==
    /\ Done
    /\ \E i \in 1..months :
          /\ monthly_data[i].base > 0
          /\ \E j, k \in 1..Len(pipeline) :
                /\ MonthOf(j) = target_months[i]
                /\ MonthOf(k) = target_months[i]
                /\ pipeline[j].stage = "Won"
                /\ pipeline[j].likelihood.v \in 1..9
                /\ pipeline[k].stage # "Won"
                /\ pipeline[k].likelihood.v > 0

----------------------------------------------------------------------------
(* C2 *)

ExpectedConservative(j) ==
    CASE pipeline[j].stage = "Won" -> 10 * pipeline[j].deal_value.v
      [] pipeline[j].stage = "Verbal Agreement" -> 8 * pipeline[j].deal_value.v
      [] OTHER -> 0

ConservativeOfMonth(i) ==
    SeqSum([j \in 1..Len(pipeline) |->
              IF MonthOf(j) = target_months[i] THEN ExpectedConservative(j) ELSE 0])

\* C2: in every result, each month's conservative figure is the sum of
\* deal_value over its Won deals plus deal_value * 0.8 over its Verbal
\* Agreement deals; a deal of another stage adds nothing, whatever its
\* likelihood.
C2_ConservativeByStage ==
    Done =>
        \A i \in 1..months :
            /\ monthly_data[i].conservative = ConservativeOfMonth(i)
            /\ IsRounded(result.months[i].conservative, ConservativeOfMonth(i))

\* a month holds a Verbal Agreement deal and a deal of another stage with
\* likelihood 10
C2_Witness ==
    /\ Done
    /\ \E i \in 1..months : \E j, k \in 1..Len(pipeline) :
          /\ MonthOf(j) = target_months[i]
          /\ MonthOf(k) = target_months[i]
          /\ pipeline[j].stage = "Verbal Agreement"
          /\ pipeline[j].deal_value.v > 0
          /\ pipeline[k].stage \notin {"Won", "Verbal Agreement"}
          /\ pipeline[k].likelihood.v = 10
          /\ monthly_data[i].conservative > 0

----------------------------------------------------------------------------
(* C3 *)

\* a best_case was supplied with the deal: the key holds a number
BestCaseSupplied(j) == pipeline[j].best_case.t = "num"

ClaimedOptimistic(j) ==
    IF pipeline[j].likelihood.v >= 5
      THEN IF BestCaseSupplied(j) THEN 10 * pipeline[j].best_case.v
                                  ELSE 10 * pipeline[j].deal_value.v
    ELSE IF pipeline[j].stage = "Won" THEN 10 * pipeline[j].deal_value.v
    ELSE 0

ClaimedOptimisticOfMonth(i) ==
    SeqSum([j \in 1..Len(pipeline) |->
              IF MonthOf(j) = target_months[i] THEN ClaimedOptimistic(j) ELSE 0])

\* C3: in every result, each month's optimistic figure is the sum, over the
\* deals allocated to it, of best_case for a deal with likelihood >= 5 that
\* supplies one (0 included), of deal_value for a deal with likelihood >= 5
\* that supplies none, and of deal_value for a Won deal with likelihood < 5.
C3_OptimisticUsesSuppliedBestCase ==
    Done =>
        \A i \in 1..months :
            monthly_data[i].optimistic = ClaimedOptimisticOfMonth(i)

----------------------------------------------------------------------------
(* C4 *)

\* sum of the reported figures f of the months of the result
ReportedSum(f) == SeqSum([i \in 1..Len(result.months) |-> result.months[i][f]])

\* C4: in every result and for each scenario, the reported total differs
\* from the sum of the reported monthly values by at most one minor unit.
C4_TotalWithinOneMinorUnit ==
    Done =>
        \A f \in {"conservative", "base", "optimistic"} :
            Abs(result.totals[f] - ReportedSum(f)) <= 1

----------------------------------------------------------------------------
(* C5 *)

\* C5: a deal of any stage whose expected_close is a date in a month before
\* the first target month is allocated to the first target month and is
\* listed in the first month of the result.
C5_PastCloseLandsInFirstMonth ==
    Done =>
        \A j \in 1..Len(pipeline) :
            (ClosesOnDate(j) /\ MonthsAhead(j) < 0) =>
                /\ MonthOf(j) = target_months[1]
                /\ target_months[1] = today
                /\ j \in BucketNames(1)

\* a deal that is not Won closed before the first month and is listed in the
\* first month, where it adds to the base figure
C5_Witness ==
    /\ Done
    /\ \E j \in 1..Len(pipeline) :
          /\ ClosesOnDate(j)
          /\ MonthsAhead(j) < 0
          /\ pipeline[j].stage # "Won"
          /\ j \in BucketNames(1)
          /\ monthly_data[1].base > 0

----------------------------------------------------------------------------
(* C6 *)

\* the figures of month i are the contributions of the deals listed for it
FiguresOfListedDeals(i) ==
    LET listed == result.deals_by_month[i]
    IN /\ monthly_data[i].conservative =
            SeqSum([n \in 1..Len(listed) |-> ConservativeAdd(deals[listed[n].name])])
       /\ monthly_data[i].base =
            SeqSum([n \in 1..Len(listed) |-> BaseAdd(deals[listed[n].name])])
       /\ monthly_data[i].optimistic =
            SeqSum([n \in 1..Len(listed) |-> OptimisticAdd(deals[listed[n].name])])

\* C6: a deal whose expected_close is a date in a month not before the
\* first target month is allocated to exactly that month when it is a target
\* month, and to none when it is after the last one; a deal closing after
\* the last target month is listed in no month, and every month's figures
\* are made of the deals listed for it alone.
C6_CloseInsideOrAfterHorizon ==
    Done =>
        /\ \A j \in 1..Len(pipeline) :
              (ClosesOnDate(j) /\ MonthsAhead(j) >= 0) =>
                  IF MonthsAhead(j) < months
                    THEN /\ MonthOf(j) = <<Close(j).y, Close(j).m>>
                         /\ target_months[MonthsAhead(j) + 1] = MonthOf(j)
                         /\ j \in BucketNames(MonthsAhead(j) + 1)
                    ELSE /\ MonthOf(j) = NoMonth
                         /\ ~Listed(j)
        /\ \A i \in 1..months : FiguresOfListedDeals(i)

\* one deal closes in a later year's target month and is listed there,
\* another closes after the last target month and is listed nowhere
C6_Witness ==
    /\ Done
    /\ \E j, k \in 1..Len(pipeline) :
          /\ ClosesOnDate(j) /\ MonthsAhead(j) > 0 /\ MonthsAhead(j) < months
          /\ Close(j).y > today[1]
          /\ j \in BucketNames(MonthsAhead(j) + 1)
          /\ ClosesOnDate(k) /\ MonthsAhead(k) >= months
          /\ pipeline[k].deal_value.v > 0 /\ pipeline[k].likelihood.v >= 5
          /\ ~Listed(k)

----------------------------------------------------------------------------
(* C7 *)

\* the dict of deal j has no expected_close: the key is missing or None
NoClose(j) == Close(j).t \in {"absent", "none"}

\* C7: a deal with no expected_close is allocated to the first target month
\* when its stage is Won and to no month at any other stage, whatever its
\* value and likelihood.
C7_NoCloseDate ==
    Done =>
        \A j \in 1..Len(pipeline) :
            NoClose(j) =>
                IF pipeline[j].stage = "Won"
                  THEN MonthOf(j) = target_months[1] /\ j \in BucketNames(1)
                  ELSE MonthOf(j) = NoMonth /\ ~Listed(j)

\* a Won deal without close date is listed in the first of several months,
\* a deal of another stage without close date and with likelihood >= 5 is
\* listed nowhere
C7_Witness ==
    /\ Done
    /\ months > 1
    /\ \E j, k \in 1..Len(pipeline) :
          /\ NoClose(j) /\ pipeline[j].stage = "Won" /\ j \in BucketNames(1)
          /\ NoClose(k) /\ pipeline[k].stage # "Won"
          /\ pipeline[k].likelihood.v >= 5 /\ pipeline[k].deal_value.v > 0
          /\ ~Listed(k)

----------------------------------------------------------------------------
(* C8 *)

\* the expected_close of deal j is a string that is not a calendar date
UnparseableClose(j) == Close(j).t \in {"empty", "text", "iso"} /\ ~ClosesOnDate(j)

\* a numeric field of the dict of deal j does not convert to a number
MalformedNumber(j) ==
    \/ pipeline[j].deal_value.t \notin {"num", "absent"}
    \/ pipeline[j].likelihood.t \notin {"num", "absent"}
    \/ pipeline[j].best_case.t \in {"text", "iso"}

\* the statement as first made: a deal whose expected_close is any string
\* that does not parse as a date is listed in no month
C8_AnyUnparseableStringExcluded ==
    Done =>
        \A j \in 1..Len(pipeline) :
            UnparseableClose(j) => (MonthOf(j) = NoMonth /\ ~Listed(j))

\* C8 (amended): a deal whose expected_close is a non-empty string that does
\* not parse as a date is allocated to no month and listed in none; an empty
\* string is handled as a missing close date; the call raises only when a
\* numeric field is malformed, never because of a close date; and every
\* other deal is still listed in the month it is allocated to.
C8_NonEmptyUnparseableExcluded ==
    /\ Done =>
          \A j \in 1..Len(pipeline) :
              /\ (UnparseableClose(j) /\ Close(j).t # "empty") =>
                    (MonthOf(j) = NoMonth /\ ~Listed(j))
              /\ Close(j).t = "empty" =>
                    IF pipeline[j].stage = "Won"
                      THEN j \in BucketNames(1)
                      ELSE ~Listed(j)
              /\ MonthOf(j) # NoMonth =>
                    j \in BucketNames(IndexOf(MonthOf(j), target_months))
    /\ pc = "raised" => \E j \in 1..Len(pipeline) : MalformedNumber(j)
    /\ (\A j \in 1..Len(pipeline) : ~MalformedNumber(j)) => error = "none"

\* a Won deal whose expected_close is a non-empty string that is no date is
\* listed nowhere although the result lists another deal of the pipeline
C8_Witness ==
    /\ Done
    /\ \E j, k \in 1..Len(pipeline) :
          /\ UnparseableClose(j) /\ Close(j).t # "empty"
          /\ pipeline[j].stage = "Won"
          /\ ~Listed(j)
          /\ k # j /\ Listed(k)

----------------------------------------------------------------------------
(* C9 *)

\* C9: when a record of the pipeline has a malformed numeric field,
\* calculate_scenarios does not raise: it skips that record and lists every
\* other record in the month it belongs to.
C9_MalformedRecordSkipped ==
    (\E j \in 1..Len(pipeline) : MalformedNumber(j)) =>
        /\ pc # "raised"
        /\ error = "none"
        /\ Done => \A j \in 1..Len(pipeline) : MalformedNumber(j) => ~Listed(j)

----------------------------------------------------------------------------
(* C10 *)

ZeroFigures(r) == r.conservative = 0 /\ r.base = 0 /\ r.optimistic = 0

\* C10: for an empty pipeline and every horizon of 1 to 6 months the call
\* does not raise and returns exactly that many month entries, each with
\* conservative = base = optimistic = 0 and an empty deal list, in
\* consecutive calendar months from the current one, with all totals 0.
C10_EmptyPipelineAllZero ==
    pipeline = <<>> =>
        /\ pc # "raised" /\ error = "none"
        /\ Done =>
              /\ Len(result.months) = months
              /\ Len(result.deals_by_month) = months
              /\ \A i \in 1..months :
                    /\ ZeroFigures(result.months[i])
                    /\ result.deals_by_month[i] = <<>>
                    /\ MonthNumber(result.months[i].month[1],
                                   result.months[i].month[2])
                         = MonthNumber(today[1], today[2]) + i - 1
              /\ ZeroFigures(result.totals)
              /\ result.projection_period.num_months = months

\* the result of an empty pipeline over the longest horizon, which runs into
\* the next year
C10_Witness ==
    /\ Done
    /\ pipeline = <<>>
    /\ months = MaxMonths
    /\ Len(result.months) = MaxMonths
    /\ result.months[MaxMonths].month[1] > today[1]

----------------------------------------------------------------------------
(* gap_analysis.py: calculate_gap *)

\* 15, the at_risk limit of gap_percentage
AtRiskLimit == 15

\* variant: gap = base_projection - target
GapOf_Reversed(base, tgt) == base - tgt

\* gap = target - base_projection
GapOf(base, tgt) == tgt - base

\* gap_percentage = (gap / target * 100) if target > 0 else 0, as a fraction
GapPercentage(base, tgt) ==
    IF tgt > 0 THEN [num |-> GapOf(base, tgt) * 100, den |-> tgt]
               ELSE [num |-> 0, den |-> 1]

\* gap_percentage <= 15
WithinAtRiskLimit(pct) == pct.num <= AtRiskLimit * pct.den

\* variant: on_track only for gap < 0
StatusOf_Strict(base, tgt) ==
    IF GapOf(base, tgt) < 0 THEN "on_track"
    ELSE IF WithinAtRiskLimit(GapPercentage(base, tgt)) THEN "at_risk"
    ELSE "behind"

StatusOf(base, tgt) ==
    IF GapOf(base, tgt) <= 0 THEN "on_track"
    ELSE IF WithinAtRiskLimit(GapPercentage(base, tgt)) THEN "at_risk"
    ELSE "behind"

\* the quotients nearest to n / d, for d > 0 (an exact half goes either way)
RoundDiv(n, d) ==
    LET q == n \div d
        r == n % d
    IN IF 2 * r < d THEN {q}
       ELSE IF 2 * r > d THEN {q + 1}
       ELSE {q, q + 1}

\* round(gap_percentage, 1), in tenths of a percent
RoundPct(pct) == RoundDiv(pct.num * 10, pct.den)

\* the dicts calculate_gap can return; target is passed through unrounded,
\* base_projection, gap and surplus are in minor units
CalculateGapResults(base, tgt) ==
    {[target |-> tgt,
      base_projection |-> b,
      gap |-> g,
      gap_percentage |-> p,
      status |-> StatusOf(base, tgt),
      surplus |-> u] :
        b \in Round2(base),
        g \in Round2(GapOf(base, tgt)),
        p \in RoundPct(GapPercentage(base, tgt)),
        u \in IF GapOf(base, tgt) < 0 THEN Round2(-GapOf(base, tgt)) ELSE {0}}

----------------------------------------------------------------------------
(* gap_analysis.py: find_deals_to_close_gap *)

\* variant: only Won deals are left out
Actionable_AnyLikelihood(d) == d.stage # "Won"

\* d.get('stage') != 'Won' and d.get('likelihood', 0) > 0
Actionable(d) == d.stage # "Won" /\ d.likelihood > 0

\* actionable = [d for d in pipeline if ...]
ActionableDeals(p) == SelectSeq(p, Actionable)

\* score = (likelihood / 10) * value, in thousandths
Score(d) == (d.likelihood * Mills(d.deal_value)) \div LikelihoodScale

\* the dicts scored_deals.append(...) can add for a deal:
\* weighted_value = round(value * likelihood / 10, 2)
Scored(d) ==
    {[name |-> d.name, stage |-> d.stage, deal_value |-> d.deal_value,
      likelihood |-> d.likelihood, score |-> Score(d), weighted_value |-> w] :
        w \in Round2((Mills(d.deal_value) * d.likelihood) \div LikelihoodScale)}

RECURSIVE ScoredLists(_, _)
\* the lists scored_deals can be after the first n actionable deals
ScoredLists(a, n) ==
    IF n = 0 THEN {<<>>}
    ELSE {Append(s, x) : s \in ScoredLists(a, n - 1), x \in Scored(a[n])}

\* variant: an ascending sort that is reversed, which reverses equal scores
InsertByScore_ReversedTies(sorted, x) ==
    LET before == {i \in 1..Len(sorted) : sorted[i].score > x.score}
        k == Cardinality(before)
    IN SubSeq(sorted, 1, k) \o <<x>> \o SubSeq(sorted, k + 1, Len(sorted))

\* x put into a list sorted by descending score, after the elements whose
\* score is not below its own (the sort is stable)
InsertByScore(sorted, x) ==
    LET before == {i \in 1..Len(sorted) : sorted[i].score >= x.score}
        k == Cardinality(before)
    IN SubSeq(sorted, 1, k) \o <<x>> \o SubSeq(sorted, k + 1, Len(sorted))

RECURSIVE SortByScore(_)
\* scored_deals.sort(key=lambda x: x['score'], reverse=True)
SortByScore(s) ==
    IF s = <<>> THEN <<>>
    ELSE InsertByScore(SortByScore(SubSeq(s, 1, Len(s) - 1)), s[Len(s)])

\* variant: the loop stops once half of the gap is covered
GapCovered_Half(c, g) == 2 * Mills(c) >= g

\* cumulative >= gap
GapCovered(c, g) == Mills(c) >= g

----------------------------------------------------------------------------
(* Inputs of gap_analysis.py *)

MaxGapDeals == 3

GapDeal(st, val, lik) == [stage |-> st, deal_value |-> val, likelihood |-> lik]

\* deals with equal scores (3.00 * 1/10 = 1.00 * 3/10 = 0.60 * 5/10), a
\* weighted value that rounds up (1.06 * 6/10), one that lies on a rounding
\* tie (0.05 * 1/10), a value of zero, Won deals and a likelihood of zero
GapDeals ==
    {GapDeal("Proposal", 300, 1), GapDeal("Verbal Agreement", 100, 3),
     GapDeal("Proposal", 60, 5), GapDeal("Proposal", 106, 6),
     GapDeal("Proposal", 5, 1), GapDeal("Proposal", 0, 5),
     GapDeal("Won", 300, 10), GapDeal("Won", 106, 0),
     GapDeal("Proposal", 300, 0)}

\* name is the position of the deal in the pipeline
GapPipelines ==
    UNION {{[i \in 1..n |-> [name |-> i, stage |-> p[i].stage,
                              deal_value |-> p[i].deal_value,
                              likelihood |-> p[i].likelihood]] :
               p \in [1..n -> GapDeals]} :
           n \in 0..MaxGapDeals}

\* targets and base projections, in thousandths: a gap of 0, of less than
\* half a minor unit either way, of exactly 15 percent and just above, a
\* surplus, a target of zero and a negative one
Targets == {-500, 0, 1000}

BaseProjections == {-1000, 0, 360, 700, 850, 849, 996, 1000, 1004, 1500}

\* gap arguments of a direct call of find_deals_to_close_gap
GapArgs == {-640, 0, 5, 600, 636, 640, 900}

----------------------------------------------------------------------------
(* analyse_gap and find_deals_to_close_gap as a state machine *)

\* calculate_scenarios is not running
ScenarioIdle ==
    /\ pipeline = <<>> /\ months = MinMonths /\ today = <<2025, 11>>
    /\ pc = "idle" /\ deals = <<>> /\ target_months = <<>>
    /\ monthly_data = <<>> /\ di = 1 /\ result = NoResult /\ error = "none"

GapInit ==
    /\ ScenarioIdle
    /\ CashIdle
    /\ RunwayIdle
    /\ gap_pipeline \in GapPipelines
    /\ gap_analysis = NoAnalysis
    /\ scored_deals = <<>>
    /\ selected = <<>>
    /\ cumulative = 0
    /\ deals_to_close = <<>>
    /\ \/ /\ entry = "analyse_gap"
          /\ base_projection \in BaseProjections
          /\ target \in Targets
          /\ gap = 0
          /\ gpc = "start"
       \/ /\ entry = "find_deals_to_close_gap"
          /\ base_projection = 0
          /\ target = 0
          /\ gap \in GapArgs
          /\ gpc = "find"

\* gap_analysis = calculate_gap(base_projection, target)
CalculateGap ==
    /\ gpc = "start"
    /\ gap_analysis' \in CalculateGapResults(base_projection, target)
    /\ gpc' = "analysed"
    /\ UNCHANGED <<entry, base_projection, target, gap_pipeline, gap,
                   scored_deals, selected, cumulative, deals_to_close>>
    /\ UNCHANGED <<scenarioVars, cashVars, runwayVars>>

\* deals_to_close = [] when gap_analysis['gap'] is not above 0
AnalyseSkipsFind ==
    /\ gpc = "analysed"
    /\ ~(gap_analysis.gap > 0)
    /\ deals_to_close' = <<>>
    /\ gpc' = "done"
    /\ UNCHANGED <<entry, base_projection, target, gap_pipeline, gap_analysis,
                   gap, scored_deals, selected, cumulative>>
    /\ UNCHANGED <<scenarioVars, cashVars, runwayVars>>

\* find_deals_to_close_gap(gap, pipeline) with the rounded gap
AnalyseCallsFind ==
    /\ gpc = "analysed"
    /\ gap_analysis.gap > 0
    /\ gap' = Mills(gap_analysis.gap)
    /\ gpc' = "find"
    /\ UNCHANGED <<entry, base_projection, target, gap_pipeline, gap_analysis,
                   scored_deals, selected, cumulative, deals_to_close>>
    /\ UNCHANGED <<scenarioVars, cashVars, runwayVars>>

\* if gap <= 0: return []
FindReturnsEmpty ==
    /\ gpc = "find"
    /\ gap <= 0
    /\ deals_to_close' = <<>>
    /\ gpc' = "done"
    /\ UNCHANGED <<entry, base_projection, target, gap_pipeline, gap_analysis,
                   gap, scored_deals, selected, cumulative>>
    /\ UNCHANGED <<scenarioVars, cashVars, runwayVars>>

\* filter, score and sort
ScoreDeals ==
    /\ gpc = "find"
    /\ ~(gap <= 0)
    /\ \E s \in ScoredLists(ActionableDeals(gap_pipeline),
                            Len(ActionableDeals(gap_pipeline))) :
          scored_deals' = SortByScore(s)
    /\ selected' = <<>>
    /\ cumulative' = 0
    /\ gpc' = "select"
    /\ UNCHANGED <<entry, base_projection, target, gap_pipeline, gap_analysis,
                   gap, deals_to_close>>
    /\ UNCHANGED <<scenarioVars, cashVars, runwayVars>>

\* one iteration of `for deal in scored_deals` that does not break
SelectDeal ==
    /\ gpc = "select"
    /\ Len(selected) < Len(scored_deals)
    /\ ~GapCovered(cumulative, gap)
    /\ LET deal == scored_deals[Len(selected) + 1]
       IN /\ selected' = Append(selected, deal)
          /\ cumulative' = cumulative + deal.weighted_value
    /\ UNCHANGED <<entry, base_projection, target, gap_pipeline, gpc,
                   gap_analysis, gap, scored_deals, deals_to_close>>
    /\ UNCHANGED <<scenarioVars, cashVars, runwayVars>>

\* the break, or the end of the list, and return selected
ReturnSelected ==
    /\ gpc = "select"
    /\ (Len(selected) = Len(scored_deals) \/ GapCovered(cumulative, gap))
    /\ deals_to_close' = selected
    /\ gpc' = "done"
    /\ UNCHANGED <<entry, base_projection, target, gap_pipeline, gap_analysis,
                   gap, scored_deals, selected, cumulative>>
    /\ UNCHANGED <<scenarioVars, cashVars, runwayVars>>

GapNext ==
    \/ CalculateGap
    \/ AnalyseSkipsFind
    \/ AnalyseCallsFind
    \/ FindReturnsEmpty
    \/ ScoreDeals
    \/ SelectDeal
    \/ ReturnSelected

SpecGap == GapInit /\ [][GapNext]_vars

----------------------------------------------------------------------------
(* C11 *)

\* calculate_gap has returned
Analysed == entry = "analyse_gap" /\ gpc # "start"

\* C11: calculate_gap reports on_track exactly when base_projection >=
\* target, for every target (zero and negative ones too), and then reports
\* the surplus base_projection - target, rounded to the minor unit.
C11_OnTrackIffBaseMeetsTarget ==
    Analysed =>
        /\ gap_analysis.status = "on_track" <=> base_projection >= target
        /\ gap_analysis.status = "on_track" =>
              IsRounded(gap_analysis.surplus, base_projection - target)

\* on track with a surplus against a target that is not positive, and on
\* track with base_projection = target
C11_Witness ==
    /\ Analysed
    /\ gap_analysis.status = "on_track"
    /\ \/ target <= 0 /\ gap_analysis.surplus > 0
       \/ base_projection = target /\ gap_analysis.surplus = 0

----------------------------------------------------------------------------
(* C12 *)

\* 0 < gap_percentage <= 15, on the unrounded percentage
PercentageInAtRiskRange ==
    LET pct == IF target > 0 THEN [num |-> (target - base_projection) * 100,
                                   den |-> target]
                             ELSE [num |-> 0, den |-> 1]
    IN 0 < pct.num /\ pct.num <= 15 * pct.den

\* C12: for gap = target - base_projection > 0, calculate_gap reports
\* at_risk exactly when 0 < gap_percentage <= 15 and behind in every other
\* case, for every target, a target <= 0 (gap_percentage 0) included.
C12_AtRiskIffPercentageInRange ==
    (Analysed /\ target - base_projection > 0) =>
        IF PercentageInAtRiskRange
          THEN gap_analysis.status = "at_risk"
          ELSE gap_analysis.status = "behind"

----------------------------------------------------------------------------
(* C13 *)

\* C13: calculate_gap computes gap = target - base_projection and, when
\* target > 0, gap_percentage = gap / target * 100 (both reported rounded);
\* when target <= 0 it reports gap_percentage = 0; it completes for every
\* base_projection and target.
C13_GapAndPercentage ==
    /\ (entry = "analyse_gap" /\ gpc = "start") => ENABLED CalculateGap
    /\ Analysed =>
          /\ IsRounded(gap_analysis.gap, target - base_projection)
          /\ target > 0 =>
                2 * Abs(gap_analysis.gap_percentage * target
                        - 1000 * (target - base_projection)) <= target
          /\ target <= 0 => gap_analysis.gap_percentage = 0

\* a result for a positive target with a gap, and one for a target <= 0
\* with a projection below it
C13_Witness ==
    /\ Analysed
    /\ \/ target > 0 /\ gap_analysis.gap > 0 /\ gap_analysis.gap_percentage > 0
       \/ target <= 0 /\ base_projection < target /\ gap_analysis.gap > 0

----------------------------------------------------------------------------
(* C14 *)

FindDone == gpc = "done" /\ gap > 0

\* sum of value * likelihood / 10 over a list of deals, in thousandths
WeightedSum(s) ==
    SeqSum([i \in 1..Len(s) |-> s[i].deal_value * s[i].likelihood])

\* sum of the reported weighted_value of a list of scored deals, in minor units
ReportedWeightedSum(s) == SeqSum([i \in 1..Len(s) |-> s[i].weighted_value])

\* the deals of the pipeline that are not Won and have a likelihood above 0
NamesOfActionable ==
    {i \in 1..Len(gap_pipeline) :
        gap_pipeline[i].stage # "Won" /\ gap_pipeline[i].likelihood > 0}

NamesOf(s) == {s[i].name : i \in 1..Len(s)}

\* the statement as first made: for every gap > 0 and every pipeline the
\* returned deals have a cumulative weighted value of at least the gap
C14_ReturnedDealsMeetGap ==
    FindDone => WeightedSum(deals_to_close) >= gap

\* C14 (amended): for every gap > 0, when the reported weighted values of
\* the actionable deals of the pipeline add up to the gap or more, so do
\* those of the returned deals; otherwise every actionable deal is returned.
C14_ReturnedDealsMeetGapWhenPossible ==
    FindDone =>
        /\ \A i \in 1..Len(deals_to_close) :
              IsRounded(deals_to_close[i].weighted_value,
                        gap_pipeline[deals_to_close[i].name].deal_value
                          * gap_pipeline[deals_to_close[i].name].likelihood)
        /\ IF 10 * ReportedWeightedSum(scored_deals) >= gap
             THEN 10 * ReportedWeightedSum(deals_to_close) >= gap
             ELSE NamesOf(deals_to_close) = NamesOfActionable

\* the pipeline can cover the gap only with more than one deal and leaves
\* an actionable deal out of the returned list
C14_Witness ==
    /\ FindDone
    /\ Len(deals_to_close) > 1
    /\ 10 * ReportedWeightedSum(deals_to_close) >= gap
    /\ NamesOf(deals_to_close) # NamesOfActionable

----------------------------------------------------------------------------
(* C15 *)

\* deal a comes before deal b in the order of descending score
\* (likelihood / 10 * deal_value), equal scores in pipeline order
Precedes(a, b) ==
    \/ a.likelihood * a.deal_value > b.likelihood * b.deal_value
    \/ /\ a.likelihood * a.deal_value = b.likelihood * b.deal_value
       /\ a.name < b.name

----------------------------------------------------------------------------
(* C16 *)

\* C16: no returned deal has stage Won or likelihood 0, for every gap and
\* pipeline, and for a gap <= 0 the returned list is empty.
C16_NoWonNoZeroLikelihood ==
    gpc = "done" =>
        /\ \A i \in 1..Len(deals_to_close) :
              /\ gap_pipeline[deals_to_close[i].name].stage # "Won"
              /\ gap_pipeline[deals_to_close[i].name].likelihood # 0
              /\ deals_to_close[i].stage # "Won"
              /\ deals_to_close[i].likelihood # 0
        /\ (entry = "find_deals_to_close_gap" /\ gap <= 0) => deals_to_close = <<>>
        /\ (entry = "analyse_gap" /\ gap_analysis.gap <= 0) => deals_to_close = <<>>

\* the gap is not covered although the pipeline holds a Won deal and a deal
\* of likelihood 0, and a deal is returned
C16_Witness ==
    /\ FindDone
    /\ 10 * ReportedWeightedSum(deals_to_close) < gap
    /\ Len(deals_to_close) > 0
    /\ \E i, j \in 1..Len(gap_pipeline) :
          /\ gap_pipeline[i].stage = "Won" /\ gap_pipeline[i].likelihood > 0
          /\ gap_pipeline[j].stage # "Won" /\ gap_pipeline[j].likelihood = 0

----------------------------------------------------------------------------
(* Part 3: the cash ledger aggregator.                                      *)
(* backend/routes/upload_routes.py (process_bank_transactions_excel,        *)
(* calculate_monthly_cash_snapshots, the upload, recalculate and clear-all  *)
(* routes) and backend/services/history_sync.py                             *)
(* (sync_bank_transactions_from_xero, recalculate_monthly_snapshots).       *)
(*                                                                          *)
(* A date is <<year, month, day>>; amounts are minor units (Numeric(12,2)). *)
(* A nullable column holds {} for NULL and {n} for the value n.            *)

Null == {}

Val(n) == {n}

\* date comparison a <= b
DateLeq(a, b) ==
    \/ a[1] < b[1]
    \/ a[1] = b[1] /\ a[2] < b[2]
    \/ a[1] = b[1] /\ a[2] = b[2] /\ a[3] <= b[3]

\* date(year, month, 1)
month_start(k) == <<k[1], k[2], 1>>

\* date(year, month, monthrange(year, month)[1])
month_end(k) == <<k[1], k[2], DaysInMonth(k[1], k[2])>>

\* the month that follows <<current_year, current_month>>
MoveToNextMonth(k) == IF k[2] = 12 THEN <<k[1] + 1, 1>> ELSE <<k[1], k[2] + 1>>

\* a row of bank_transactions
BankTransaction(dt, desc, debit, credit) ==
    [transaction_date |-> dt, description |-> desc,
     debit_gbp |-> debit, credit_gbp |-> credit]

\* the rows dated month_start <= transaction_date <= month_end
InMonth(L, k) ==
    {t \in L : /\ DateLeq(month_start(k), t.transaction_date)
               /\ DateLeq(t.transaction_date, month_end(k))}

RECURSIVE SumDebit(_)

\* func.sum(BankTransaction.debit_gbp), 0 over no rows
SumDebit(T) ==
    IF T = {} THEN 0
    ELSE LET t == CHOOSE x \in T : TRUE IN t.debit_gbp + SumDebit(T \ {t})

RECURSIVE SumCredit(_)

\* func.sum(BankTransaction.credit_gbp), 0 over no rows
SumCredit(T) ==
    IF T = {} THEN 0
    ELSE LET t == CHOOSE x \in T : TRUE IN t.credit_gbp + SumCredit(T \ {t})

\* BankTransaction.description == word
DescriptionIs(T, word) == {t \in T : t.description = word}

\* func.min / func.max of transaction_date
MinDate(L) ==
    CHOOSE d \in {t.transaction_date : t \in L} :
        \A t \in L : DateLeq(d, t.transaction_date)

MaxDate(L) ==
    CHOOSE d \in {t.transaction_date : t \in L} :
        \A t \in L : DateLeq(t.transaction_date, d)

\* total_in > 0 or total_out > 0 or opening_balance != 0
HasActivity(total_in, total_out, opening_balance) ==
    total_in > 0 \/ total_out > 0 \/ opening_balance # 0

\* the row calculate_monthly_cash_snapshots builds for month k
MonthlyCashSnapshot(L, k, opening, writer) ==
    LET T == InMonth(L, k)
    IN [snapshot_date |-> month_end(k),
        opening_balance |-> Val(opening),
        total_in |-> SumDebit(T),
        total_out |-> SumCredit(T),
        closing_balance |-> Val(opening + SumDebit(T) - SumCredit(T)),
        wages_paid |-> SumCredit(DescriptionIs(T, "WAGES")),
        hmrc_paid |-> SumCredit(DescriptionIs(T, "HMRC")),
        xmin |-> writer]

\* the rows the loop adds for month k: one, or none for a skipped month
RowsOfMonth(L, k, opening, writer) ==
    LET row == MonthlyCashSnapshot(L, k, opening, writer)
    IN IF HasActivity(row.total_in, row.total_out, opening)
         THEN {row} ELSE {}

\* variant: a negative balance is not carried
ClosingOf_Clamped(L, k, opening) ==
    IF opening + SumDebit(InMonth(L, k)) - SumCredit(InMonth(L, k)) < 0 THEN 0
    ELSE opening + SumDebit(InMonth(L, k)) - SumCredit(InMonth(L, k))

\* closing_balance of month k
ClosingOf(L, k, opening) ==
    opening + SumDebit(InMonth(L, k)) - SumCredit(InMonth(L, k))

\* while date(current_year, current_month, 1) <= end_date
LoopContinues(k, end_date) == DateLeq(month_start(k), end_date)

RECURSIVE SnapshotLoop(_, _, _, _, _)

\* the rows the whole loop adds from month k on
SnapshotLoop(L, k, opening, end_date, writer) ==
    IF ~LoopContinues(k, end_date) THEN {}
    ELSE RowsOfMonth(L, k, opening, writer)
           \cup SnapshotLoop(L, MoveToNextMonth(k), ClosingOf(L, k, opening),
                             end_date, writer)

\* variant: no transactions is not reported as an error
StatsOf_NoError(L) ==
    IF L = {} THEN [months_calculated |-> 0, errors |-> <<>>]
    ELSE [months_calculated |->
              Cardinality(SnapshotLoop(L, <<MinDate(L)[1], MinDate(L)[2]>>, 0,
                                       MaxDate(L), 0)),
          errors |-> <<>>]

\* the stats calculate_monthly_cash_snapshots returns when nothing raises
StatsOf(L) ==
    IF L = {} THEN [months_calculated |-> 0, errors |-> <<"No transactions found">>]
    ELSE [months_calculated |->
              Cardinality(SnapshotLoop(L, <<MinDate(L)[1], MinDate(L)[2]>>, 0,
                                       MaxDate(L), 0)),
          errors |-> <<>>]

\* the committed snapshot rows after calculate_monthly_cash_snapshots and
\* the end of its request: with no transactions the function returns after
\* the flushed delete without a commit, and the delete is discarded
calculate_monthly_cash_snapshots(L, S, writer) ==
    IF L = {} THEN S
    ELSE SnapshotLoop(L, <<MinDate(L)[1], MinDate(L)[2]>>, 0, MaxDate(L), writer)

----------------------------------------------------------------------------
(* history_sync.py *)

\* a transaction returned by the Xero client
XeroTxn(dt, desc, amount) == [date |-> dt, description |-> desc, amount |-> amount]

\* the existing row matched by date and description
Existing(L, txn) ==
    {t \in L : /\ t.transaction_date = txn.date
               /\ t.description = txn.description}

\* debit/credit from the signed amount
TxnRow(txn) ==
    IF txn.amount >= 0
      THEN BankTransaction(txn.date, txn.description, txn.amount, 0)
      ELSE BankTransaction(txn.date, txn.description, 0, -txn.amount)

\* the ledger after one fetched transaction: update the match or create
SyncOne(L, txn) == (L \ Existing(L, txn)) \cup {TxnRow(txn)}

RECURSIVE SyncAll(_, _)

SyncAll(L, txns) ==
    IF txns = <<>> THEN L ELSE SyncAll(SyncOne(L, Head(txns)), Tail(txns))

\* description ILIKE '%word%', over the descriptions of the ledger
ILike(desc, word) ==
    \/ desc = word
    \/ word = "WAGES" /\ desc = "Staff wages"

DescriptionLike(T, word) == {t \in T : ILike(t.description, word)}

\* the row recalculate_monthly_snapshots leaves for month k: total_in,
\* total_out, wages_paid and hmrc_paid are set, the balances of an existing
\* row are kept and those of a new row stay NULL
Upserted(L, S, k) ==
    LET T == InMonth(L, k)
        old == {r \in S : r.snapshot_date = month_end(k)}
        fresh == [snapshot_date |-> month_end(k),
                  opening_balance |-> Null,
                  total_in |-> SumDebit(T),
                  total_out |-> SumCredit(T),
                  closing_balance |-> Null,
                  wages_paid |-> SumCredit(DescriptionLike(T, "WAGES")),
                  hmrc_paid |-> SumCredit(DescriptionLike(T, "HMRC")),
                  xmin |-> 0]
    IN IF old = {} THEN fresh
       ELSE LET e == CHOOSE r \in old : TRUE
            IN [e EXCEPT !.total_in = fresh.total_in,
                         !.total_out = fresh.total_out,
                         !.wages_paid = fresh.wages_paid,
                         !.hmrc_paid = fresh.hmrc_paid]

RECURSIVE recalculate_monthly_snapshots(_, _, _, _)

\* upsert every month from k to the month of to_date
recalculate_monthly_snapshots(L, S, k, to_date) ==
    IF ~DateLeq(month_start(k), month_start(<<to_date[1], to_date[2]>>)) THEN S
    ELSE recalculate_monthly_snapshots(
             L,
             {r \in S : r.snapshot_date # month_end(k)} \cup {Upserted(L, S, k)},
             MoveToNextMonth(k), to_date)

----------------------------------------------------------------------------
(* Requests *)

\* rows of one uploaded file, transactions fetched by one sync, rows kept
MaxFileRows == 2
MaxSyncTxns == 1
MaxEntries == 3

LedgerDates == {<<2025, 11, 1>>, <<2025, 12, 31>>, <<2026, 1, 15>>}

FileRows ==
    {BankTransaction(d, "Sale", 100, 0) : d \in LedgerDates}
      \cup {BankTransaction(d, "WAGES", 0, 100) :
                d \in {<<2025, 11, 1>>, <<2025, 12, 31>>}}

\* the valid rows of an uploaded file (none: a file of headers only)
Files == {F \in SUBSET FileRows : Cardinality(F) <= MaxFileRows}

XeroTxns ==
    {XeroTxn(d, "Sale", 150) : d \in {<<2025, 12, 31>>, <<2026, 1, 15>>}}
      \cup {XeroTxn(<<2025, 11, 1>>, "Staff wages", -100)}

\* date.today() of a sync
SyncToday == <<2026, 1, 15>>

RECURSIVE TxnLists(_)

TxnLists(n) ==
    IF n = 0 THEN {<<>>}
    ELSE TxnLists(n - 1)
           \cup {Append(l, x) : l \in {m \in TxnLists(n - 1) : Len(m) = n - 1},
                                x \in XeroTxns}

CashInit ==
    /\ ScenarioIdle
    /\ GapIdle
    /\ CashIdle
    /\ RunwayIdle

\* POST /api/upload/bank-transactions: the file replaces the ledger, then
\* the snapshots are calculated
UploadBankTransactions ==
    \E F \in Files :
        /\ ledger' = F
        /\ snapshots' = calculate_monthly_cash_snapshots(F, snapshots, 0)
        /\ cash_op' = "upload_bank_transactions"
        /\ stats' = StatsOf(F)
        /\ UNCHANGED <<scenarioVars, gapVars, runwayVars, recomputeVars>>

\* POST /api/upload/recalculate-snapshots
RecalculateSnapshots ==
    /\ snapshots' = calculate_monthly_cash_snapshots(ledger, snapshots, 0)
    /\ cash_op' = "recalculate_snapshots"
    /\ stats' = StatsOf(ledger)
    /\ UNCHANGED <<ledger, scenarioVars, gapVars, runwayVars, recomputeVars>>

\* sync_bank_transactions_from_xero: the fetched transactions are merged
\* and committed, then the months from from_date to to_date are upserted
SyncBankTransactions ==
    \E from_date \in LedgerDates, to_date \in {SyncToday}, txns \in TxnLists(MaxSyncTxns) :
        /\ DateLeq(from_date, to_date)
        /\ \A i \in 1..Len(txns) :
              DateLeq(from_date, txns[i].date) /\ DateLeq(txns[i].date, to_date)
        /\ Cardinality(SyncAll(ledger, txns)) <= MaxEntries
        /\ ledger' = SyncAll(ledger, txns)
        /\ snapshots' =
              IF Len(txns) > 0
                THEN recalculate_monthly_snapshots(
                         ledger', snapshots, <<from_date[1], from_date[2]>>, to_date)
                ELSE snapshots
        /\ cash_op' = "sync_bank_transactions_from_xero"
        /\ stats' = NoStats
        /\ UNCHANGED <<scenarioVars, gapVars, runwayVars, recomputeVars>>

\* POST /api/upload/clear-all
ClearAll ==
    /\ ledger' = {}
    /\ snapshots' = {}
    /\ cash_op' = "clear_all_historical_data"
    /\ stats' = NoStats
    /\ UNCHANGED <<scenarioVars, gapVars, runwayVars, recomputeVars>>

CashNext ==
    \/ UploadBankTransactions
    \/ RecalculateSnapshots
    \/ SyncBankTransactions
    \/ ClearAll

SpecCash == CashInit /\ [][CashNext]_vars

----------------------------------------------------------------------------
(* Two concurrent calls of calculate_monthly_cash_snapshots, each in its    *)
(* own database transaction, and a reader.  A statement reads committed     *)
(* rows; a row deleted or inserted by an open transaction is locked until   *)
(* that transaction commits or rolls back.                                  *)

\* variant: snapshot_date is not unique
SameKey_NotUnique(r, row) == FALSE

\* snapshot_date: unique=True
SameKey(r, row) == r.snapshot_date = row.snapshot_date

\* rows deleted by an open transaction other than p
LockedByOther(p) == UNION {deleted[q] : q \in Recomputes \ {p}}

\* rows inserted by an open transaction other than p
PendingOfOther(p) == UNION {added[q] : q \in Recomputes \ {p}}

\* committed rows that transaction p sees with the key of row
CommittedWithKey(p, row) == {r \in snapshots \ deleted[p] : SameKey(r, row)}

\* the insert of row by p has to wait for another transaction to end
InsertWaits(p, row) ==
    \/ \E r \in PendingOfOther(p) : SameKey(r, row)
    \/ \E r \in CommittedWithKey(p, row) : r \in LockedByOther(p)

\* the insert of row by p violates the unique index
UniqueViolation(p, row) ==
    \E r \in CommittedWithKey(p, row) : r \notin LockedByOther(p)

\* the snapshot sets left by earlier recomputes, over ledgers of sales
PrecedingSets ==
    {calculate_monthly_cash_snapshots(F, {}, 0) :
        F \in {G \in Files : \A t \in G : t.description = "Sale"}}

ConcInit ==
    /\ ScenarioIdle
    /\ GapIdle
    /\ RunwayIdle
    /\ ledger \in Files
    /\ snapshots \in PrecedingSets
    /\ cash_op = "recalculate_snapshots"
    /\ stats = NoStats
    /\ rpc = [p \in Recomputes |-> "start"]
    /\ visible = [p \in Recomputes |-> {}]
    /\ deleted = [p \in Recomputes |-> {}]
    /\ added = [p \in Recomputes |-> {}]
    /\ current = [p \in Recomputes |-> <<0, 0>>]
    /\ running_balance = [p \in Recomputes |-> 0]
    /\ seen = snapshots
    /\ preceding = snapshots

\* MonthlyCashSnapshot.query.delete() reads the committed rows
DeleteStarts(p) ==
    /\ rpc[p] = "start"
    /\ visible' = [visible EXCEPT ![p] = snapshots]
    /\ rpc' = [rpc EXCEPT ![p] = "delete"]
    /\ UNCHANGED <<stats, scenarioVars, gapVars, runwayVars, ledgerVars, deleted, added, current,
                   running_balance, seen, preceding>>

\* the delete is done once no row it read is locked by the other
\* transaction; it deletes the rows that still exist
DeleteSnapshots(p) ==
    /\ rpc[p] = "delete"
    /\ visible[p] \cap LockedByOther(p) = {}
    /\ deleted' = [deleted EXCEPT ![p] = visible[p] \cap snapshots]
    /\ rpc' = [rpc EXCEPT ![p] = "date_range"]
    /\ UNCHANGED <<stats, scenarioVars, gapVars, runwayVars, ledgerVars, visible, added, current,
                   running_balance, seen, preceding>>

\* no transactions: return stats, with neither commit nor rollback
NoTransactionsFound(p) ==
    /\ rpc[p] = "date_range"
    /\ ledger = {}
    /\ rpc' = [rpc EXCEPT ![p] = "returned"]
    /\ stats' = [months_calculated |-> 0, errors |-> <<"No transactions found">>]
    /\ UNCHANGED <<scenarioVars, gapVars, runwayVars, ledgerVars, visible, deleted, added,
                   current, running_balance, seen, preceding>>

\* the request ends: its session is removed and the open transaction with it
RequestEnds(p) ==
    /\ rpc[p] = "returned"
    /\ deleted' = [deleted EXCEPT ![p] = {}]
    /\ rpc' = [rpc EXCEPT ![p] = "ended"]
    /\ UNCHANGED <<stats, scenarioVars, gapVars, runwayVars, ledgerVars, visible, added, current,
                   running_balance, seen, preceding>>

\* start_date, end_date, running_balance = 0
DateRange(p) ==
    /\ rpc[p] = "date_range"
    /\ ledger # {}
    /\ current' = [current EXCEPT ![p] = <<MinDate(ledger)[1], MinDate(ledger)[2]>>]
    /\ running_balance' = [running_balance EXCEPT ![p] = 0]
    /\ rpc' = [rpc EXCEPT ![p] = "loop"]
    /\ UNCHANGED <<stats, scenarioVars, gapVars, runwayVars, ledgerVars, visible, deleted, added,
                   seen, preceding>>

\* one turn of the month loop: the month's row, if any, is inserted
MonthStep(p) ==
    /\ rpc[p] = "loop"
    /\ LoopContinues(current[p], MaxDate(ledger))
    /\ LET rows == RowsOfMonth(ledger, current[p], running_balance[p], p)
       IN /\ \A row \in rows : ~InsertWaits(p, row) /\ ~UniqueViolation(p, row)
          /\ added' = [added EXCEPT ![p] = added[p] \cup rows]
    /\ running_balance' =
          [running_balance EXCEPT ![p] = ClosingOf(ledger, current[p], running_balance[p])]
    /\ current' = [current EXCEPT ![p] = MoveToNextMonth(current[p])]
    /\ UNCHANGED <<stats, scenarioVars, gapVars, runwayVars, ledgerVars, rpc, visible, deleted,
                   seen, preceding>>

\* the insert hits a committed row of the same snapshot_date:
\* IntegrityError, caught by the except clause, which rolls back
InsertViolatesUnique(p) ==
    /\ rpc[p] = "loop"
    /\ LoopContinues(current[p], MaxDate(ledger))
    /\ \E row \in RowsOfMonth(ledger, current[p], running_balance[p], p) :
          ~InsertWaits(p, row) /\ UniqueViolation(p, row)
    /\ deleted' = [deleted EXCEPT ![p] = {}]
    /\ added' = [added EXCEPT ![p] = {}]
    /\ rpc' = [rpc EXCEPT ![p] = "rolled_back"]
    /\ stats' = [months_calculated |-> Cardinality(added[p]),
                 errors |-> <<"Failed to calculate snapshots">>]
    /\ UNCHANGED <<scenarioVars, gapVars, runwayVars, ledgerVars, visible, current,
                   running_balance, seen, preceding>>

\* any other database error (lock timeout, deadlock, lost connection):
\* caught by the except clause, which rolls back
Rollback(p) ==
    /\ rpc[p] \in {"delete", "date_range", "loop"}
    /\ deleted' = [deleted EXCEPT ![p] = {}]
    /\ added' = [added EXCEPT ![p] = {}]
    /\ rpc' = [rpc EXCEPT ![p] = "rolled_back"]
    /\ stats' = [months_calculated |-> Cardinality(added[p]),
                 errors |-> <<"Failed to calculate snapshots">>]
    /\ UNCHANGED <<scenarioVars, gapVars, runwayVars, ledgerVars, visible, current,
                   running_balance, seen, preceding>>

\* db.session.commit() after the loop
Commit(p) ==
    /\ rpc[p] = "loop"
    /\ ~LoopContinues(current[p], MaxDate(ledger))
    /\ snapshots' = (snapshots \ deleted[p]) \cup added[p]
    /\ deleted' = [deleted EXCEPT ![p] = {}]
    /\ added' = [added EXCEPT ![p] = {}]
    /\ rpc' = [rpc EXCEPT ![p] = "committed"]
    /\ stats' = [months_calculated |-> Cardinality(added[p]), errors |-> <<>>]
    /\ UNCHANGED <<scenarioVars, gapVars, runwayVars, ledger, cash_op, visible, current,
                   running_balance, seen, preceding>>

\* a reader queries the snapshots
Read ==
    /\ seen' = snapshots
    /\ UNCHANGED <<stats, scenarioVars, gapVars, runwayVars, ledgerVars, rpc, visible, deleted,
                   added, current, running_balance, preceding>>

ConcNext ==
    \/ \E p \in Recomputes : DeleteStarts(p)
    \/ \E p \in Recomputes : DeleteSnapshots(p)
    \/ \E p \in Recomputes : NoTransactionsFound(p)
    \/ \E p \in Recomputes : RequestEnds(p)
    \/ \E p \in Recomputes : DateRange(p)
    \/ \E p \in Recomputes : MonthStep(p)
    \/ \E p \in Recomputes : InsertViolatesUnique(p)
    \/ \E p \in Recomputes : Rollback(p)
    \/ \E p \in Recomputes : Commit(p)
    \/ Read

SpecConc == ConcInit /\ [][ConcNext]_vars

----------------------------------------------------------------------------
(* C17 *)

\* the snapshot of the calendar month before the month of row r
PrecedingSnapshots(r) ==
    {q \in snapshots :
        MoveToNextMonth(<<q.snapshot_date[1], q.snapshot_date[2]>>)
            = <<r.snapshot_date[1], r.snapshot_date[2]>>}

\* closing_balance = opening_balance + total_in - total_out
Balanced(r) ==
    /\ r.opening_balance # Null
    /\ r.closing_balance # Null
    /\ \A o \in r.opening_balance :
          r.closing_balance = Val(o + r.total_in - r.total_out)

\* C17: after every sequence of ledger uploads, full recomputes and
\* sync-triggered recomputes, every persisted snapshot has closing_balance =
\* opening_balance + total_in - total_out, and its opening_balance is the
\* closing_balance of the snapshot of the month before it.
C17_SnapshotsBalancedAndChained ==
    \A r \in snapshots :
        /\ Balanced(r)
        /\ \A q \in PrecedingSnapshots(r) : r.opening_balance = q.closing_balance

----------------------------------------------------------------------------
(* C18 *)

\* calculate_monthly_cash_snapshots was the last thing to write the snapshots
FullyRecomputed ==
    cash_op \in {"upload_bank_transactions", "recalculate_snapshots"}

RECURSIVE MonthEndsBetween(_, _)

\* the last day of every calendar month from month k to the month of date d
MonthEndsBetween(k, d) ==
    IF KeyLess(<<d[1], d[2]>>, k) THEN {}
    ELSE {month_end(k)} \cup MonthEndsBetween(MoveToNextMonth(k), d)

\* C18: for a ledger that is not empty, calculate_monthly_cash_snapshots
\* persists exactly one snapshot for every calendar month from the month of
\* the earliest entry to the month of the latest entry, months with no
\* entries included.
C18_OneSnapshotPerMonthInRange ==
    (FullyRecomputed /\ ledger # {}) =>
        /\ {r.snapshot_date : r \in snapshots}
              = MonthEndsBetween(<<MinDate(ledger)[1], MinDate(ledger)[2]>>,
                                 MaxDate(ledger))
        /\ \A r, q \in snapshots : r.snapshot_date = q.snapshot_date => r = q

----------------------------------------------------------------------------
(* C19 *)

\* C19: the snapshot set persisted after calculate_monthly_cash_snapshots is
\* determined by the ledger alone: for every ledger, the empty one included,
\* and every set persisted before, it is the set the same recompute persists
\* over an empty snapshot table.
C19_DeterminedByLedgerAlone ==
    FullyRecomputed =>
        snapshots = calculate_monthly_cash_snapshots(ledger, {}, 0)

----------------------------------------------------------------------------
(* C20 *)

\* the complete snapshot set of recompute p
CompleteSetOf(p) ==
    IF ledger = {} THEN {}
    ELSE SnapshotLoop(ledger, <<MinDate(ledger)[1], MinDate(ledger)[2]>>, 0,
                      MaxDate(ledger), p)

\* the sets the committed table may hold
WholeSets == {preceding} \cup {CompleteSetOf(p) : p \in Recomputes}

----------------------------------------------------------------------------
(* Part 4: the runway estimator, backend/routes/metrics_routes.py           *)
(* (runway_confidence).                                                     *)
(*                                                                          *)
(* Amounts are minor units.  mean and stdev of n flows are kept as n times  *)
(* their value (FlowSum, StdTimesN), so every burn is an integer over n;    *)
(* the windows are those whose sample standard deviation is exact.  Months  *)
(* are reported in tenths.  float(total_in) - float(total_out) is exact for *)
(* whole amounts; for the two rows with pence it carries the binary64       *)
(* rounding residue of FloatResidue, which decides the sign of a mean that  *)
(* is 0 in exact arithmetic.                                                *)

\* if len(snapshots) < 3
MinSnapshots == 3

\* the cap of best_runway, and the value taken when avg_burn is not > 0
RunwayCap == 24

\* a quotient by a burn that is a rounding residue: beyond every cap
HugeTenths == 1000 * RunwayCap * 10

SnapshotTotals(tin, tout) == [total_in |-> tin, total_out |-> tout]

\* net_flow = float(total_in or 0) - float(total_out or 0)
NetFlow(row) == row.total_in - row.total_out

\* the float net_flow minus the exact one, in units of 10^-18:
\* float(100.10) - float(100.30) = -0.20000000000000284 and
\* float(0.20) = 0.2000000000000000111
FloatResidue(row) ==
    CASE row = SnapshotTotals(10010, 10030) -> -2842
      [] row = SnapshotTotals(20, 0) -> 11
      [] OTHER -> 0

monthly_flows(w) == [i \in 1..Len(w) |-> NetFlow(w[i])]

\* n * mean(monthly_flows)
FlowSum(w) == SeqSum(monthly_flows(w))

ResidueSum(w) == SeqSum([i \in 1..Len(w) |-> FloatResidue(w[i])])

\* variant: fewer than 2 snapshots
Insufficient_Two(w) == Len(w) < 2

\* if len(snapshots) < 3
Insufficient(w) == Len(w) < MinSnapshots

\* if avg_flow >= 0, on the floats
AvgFlowNonNegative(w) ==
    \/ FlowSum(w) > 0
    \/ FlowSum(w) = 0 /\ ResidueSum(w) >= 0

\* sum of (n * x - n * mean)^2
SquaredDeviations(w) ==
    SeqSum([i \in 1..Len(w) |->
              (Len(w) * NetFlow(w[i]) - FlowSum(w))
                * (Len(w) * NetFlow(w[i]) - FlowSum(w))])

RECURSIVE SqrtBetween(_, _, _)

\* the largest r in lo..hi with r * r <= x
SqrtBetween(lo, hi, x) ==
    IF lo >= hi THEN lo
    ELSE LET mid == (lo + hi + 1) \div 2
         IN IF mid * mid <= x THEN SqrtBetween(mid, hi, x)
            ELSE SqrtBetween(lo, mid - 1, x)

MaxRoot == 40000

\* n * stdev(monthly_flows), for a window whose stdev is exact
StdTimesN(w) ==
    IF Len(w) < 2 THEN 0
    ELSE SqrtBetween(0, MaxRoot, SquaredDeviations(w) \div (Len(w) - 1))

ExactStdev(w) ==
    \/ Len(w) < 2
    \/ /\ SquaredDeviations(w) % (Len(w) - 1) = 0
       /\ StdTimesN(w) * StdTimesN(w) * (Len(w) - 1) = SquaredDeviations(w)

\* n * avg_burn, n * best_burn, n * worst_burn; 0 stands for a burn that is
\* a rounding residue only (> 0 and below every amount)
AvgBurnN(w) == Abs(FlowSum(w))

BestBurnN(w) == Abs(FlowSum(w) + StdTimesN(w))

WorstBurnN(w) == Abs(FlowSum(w) - StdTimesN(w))

\* some flow of the window is not exact in binary64: a burn that is 0 in
\* exact arithmetic is then a rounding residue
HasResidue(w) == \E i \in 1..Len(w) : FloatResidue(w[i]) # 0

\* round(current_cash / burn, 1), in tenths
MonthsTenths(cash, burnN, n) ==
    IF burnN = 0
      THEN {IF cash > 0 THEN HugeTenths ELSE IF cash < 0 THEN -HugeTenths ELSE 0}
      ELSE RoundDiv(cash * n * 10, burnN)

Min(a, b) == IF a < b THEN a ELSE b

Max(a, b) == IF a > b THEN a ELSE b

\* round(best_runway, 1): 24 when best_burn <= 0, else min(cash / best_burn, 24)
best_runway(cash, w) ==
    IF BestBurnN(w) = 0 /\ ~HasResidue(w) THEN {RunwayCap * 10}
    ELSE {Min(t, RunwayCap * 10) : t \in MonthsTenths(cash, BestBurnN(w), Len(w))}

\* round(expected_runway, 1): current_cash / avg_burn (avg_burn > 0 here)
expected_runway(cash, w) == MonthsTenths(cash, AvgBurnN(w), Len(w))

\* round(max(worst_runway, 0), 1): current_cash / worst_burn (worst_burn > 0 here)
worst_runway(cash, w) ==
    {Max(t, 0) : t \in MonthsTenths(cash, WorstBurnN(w), Len(w))}

InsufficientResponse ==
    [status_code |-> 400, success |-> FALSE, fields |-> {"success", "error"},
     error |-> "Insufficient historical data (need at least 3 months)",
     is_profitable |-> FALSE,
     best_case_months |-> 0, expected_months |-> 0, worst_case_months |-> 0]

ProfitableResponse ==
    [status_code |-> 200, success |-> TRUE,
     fields |-> {"success", "is_profitable", "current_cash", "avg_monthly_surplus",
                 "surplus_volatility", "months_analyzed", "calculation_basis"},
     error |-> "", is_profitable |-> TRUE,
     best_case_months |-> 0, expected_months |-> 0, worst_case_months |-> 0]

RunwayResponses(cash, w) ==
    {[status_code |-> 200, success |-> TRUE,
      fields |-> {"success", "is_profitable", "current_cash", "best_case_months",
                  "expected_months", "worst_case_months", "avg_monthly_burn",
                  "burn_volatility", "months_analyzed", "calculation_basis"},
      error |-> "", is_profitable |-> FALSE,
      best_case_months |-> b, expected_months |-> e, worst_case_months |-> x] :
        b \in best_runway(cash, w), e \in expected_runway(cash, w),
        x \in worst_runway(cash, w)}

\* snapshots of a window
MaxWindow == 4

WindowRows ==
    {SnapshotTotals(0, 100), SnapshotTotals(300, 0), SnapshotTotals(0, 500),
     SnapshotTotals(0, 0), SnapshotTotals(0, 200), SnapshotTotals(10010, 10030),
     SnapshotTotals(20, 0)}

RECURSIVE WindowsOfLength(_)

WindowsOfLength(n) ==
    IF n = 0 THEN {<<>>}
    ELSE {Append(w, row) : w \in WindowsOfLength(n - 1), row \in WindowRows}

Windows ==
    {w \in UNION {WindowsOfLength(n) : n \in 0..MaxWindow} : ExactStdev(w)}

CashPositions == {-500, 0, 1000, 3000, 10000}

RunwayInit ==
    /\ ScenarioIdle
    /\ GapIdle
    /\ CashIdle
    /\ window \in Windows
    /\ current_cash \in CashPositions
    /\ rwpc = "start"
    /\ response = NoResponse

\* fewer than 3 snapshots: 400
ReturnInsufficient ==
    /\ rwpc = "start"
    /\ Insufficient(window)
    /\ response' = InsufficientResponse
    /\ rwpc' = "done"
    /\ UNCHANGED <<window, current_cash, scenarioVars, gapVars, cashVars>>

\* avg_flow >= 0
ReturnProfitable ==
    /\ rwpc = "start"
    /\ ~Insufficient(window)
    /\ AvgFlowNonNegative(window)
    /\ response' = ProfitableResponse
    /\ rwpc' = "done"
    /\ UNCHANGED <<window, current_cash, scenarioVars, gapVars, cashVars>>

\* the three runway estimates
ReturnRunway ==
    /\ rwpc = "start"
    /\ ~Insufficient(window)
    /\ ~AvgFlowNonNegative(window)
    /\ response' \in RunwayResponses(current_cash, window)
    /\ rwpc' = "done"
    /\ UNCHANGED <<window, current_cash, scenarioVars, gapVars, cashVars>>

RunwayNext ==
    \/ ReturnInsufficient
    \/ ReturnProfitable
    \/ ReturnRunway

SpecRunway == RunwayInit /\ [][RunwayNext]_vars

----------------------------------------------------------------------------
(* C21 *)

RECURSIVE SumTotalIn(_)

SumTotalIn(S) ==
    IF S = {} THEN 0
    ELSE LET r == CHOOSE x \in S : TRUE IN r.total_in + SumTotalIn(S \ {r})

RECURSIVE SumTotalOut(_)

SumTotalOut(S) ==
    IF S = {} THEN 0
    ELSE LET r == CHOOSE x \in S : TRUE IN r.total_out + SumTotalOut(S \ {r})

\* the snapshots with the earliest and with the latest snapshot_date
FirstSnapshots ==
    {r \in snapshots : \A q \in snapshots : DateLeq(r.snapshot_date, q.snapshot_date)}

LastSnapshots ==
    {r \in snapshots : \A q \in snapshots : DateLeq(q.snapshot_date, r.snapshot_date)}

\* C21: for every ledger of non-negative amounts, the snapshots that
\* calculate_monthly_cash_snapshots produces have total_in adding up to the
\* ledger's inflows and total_out to its outflows, the first opening_balance
\* is 0 and the last closing_balance is the sum of the monthly net flows,
\* negative or not.
C21_TotalsConservedAndTelescoped ==
    (FullyRecomputed /\ ledger # {}) =>
        /\ \A t \in ledger : t.debit_gbp >= 0 /\ t.credit_gbp >= 0
        /\ SumTotalIn(snapshots) = SumDebit(ledger)
        /\ SumTotalOut(snapshots) = SumCredit(ledger)
        /\ \A r \in FirstSnapshots : r.opening_balance = Val(0)
        /\ \A r \in LastSnapshots :
              r.closing_balance = Val(SumTotalIn(snapshots) - SumTotalOut(snapshots))

\* a negative balance is carried over a month and the range ends negative
C21_Witness ==
    /\ FullyRecomputed
    /\ Cardinality(snapshots) > 1
    /\ \E r \in LastSnapshots :
          /\ r.opening_balance = Val(-100)
          /\ r.total_in = 0
          /\ r.closing_balance # Val(0)
          /\ \E n \in r.closing_balance : n < 0

----------------------------------------------------------------------------
(* C22 *)

\* C22: with no ledger entries calculate_monthly_cash_snapshots returns
\* zero months calculated and an empty error list.
C22_EmptyLedgerWellFormed ==
    (FullyRecomputed /\ ledger = {}) =>
        /\ stats.months_calculated = 0
        /\ stats.errors = <<>>

----------------------------------------------------------------------------
(* C26 *)

\* the columns compared between the two recomputes
Columns(r) ==
    [opening_balance |-> r.opening_balance, total_in |-> r.total_in,
     total_out |-> r.total_out, closing_balance |-> r.closing_balance,
     wages_paid |-> r.wages_paid, hmrc_paid |-> r.hmrc_paid]

\* C26: after recalculate_monthly_snapshots the persisted snapshot of a
\* month has the opening_balance, total_in, total_out, closing_balance,
\* wages_paid and hmrc_paid that calculate_monthly_cash_snapshots produces
\* for that month from the same ledger.
C26_SyncRecomputeEqualsFullRecompute ==
    (cash_op = "sync_bank_transactions_from_xero" /\ ledger # {}
       /\ snapshots # {}) =>
        \A r \in snapshots :
            \A q \in calculate_monthly_cash_snapshots(ledger, {}, 0) :
                r.snapshot_date = q.snapshot_date => Columns(r) = Columns(q)

----------------------------------------------------------------------------
(* C23, C24, C25, C27: runway_confidence *)

RunwayDone == rwpc = "done"

\* the response carries the three runway figures and is_profitable = false
NonProfitable ==
    /\ RunwayDone
    /\ "is_profitable" \in response.fields
    /\ ~response.is_profitable

RunwayFigures == {"best_case_months", "expected_months", "worst_case_months"}

\* C23: in every non-profitable result best_case_months, expected_months and
\* worst_case_months are each at most 24 and worst_case_months is at least
\* 0, for every current cash position and every window.
C23_RunwayFiguresCapped ==
    NonProfitable =>
        /\ response.best_case_months <= RunwayCap * 10
        /\ response.expected_months <= RunwayCap * 10
        /\ response.worst_case_months <= RunwayCap * 10
        /\ response.worst_case_months >= 0

\* C24: with at least three snapshots whose mean of total_in - total_out is
\* not negative, the response is the profitable one (is_profitable true and
\* no runway figure), whatever the current cash position.
C24_ProfitableWhenMeanNotNegative ==
    (RunwayDone /\ Len(window) >= MinSnapshots /\ FlowSum(window) >= 0) =>
        /\ response.success
        /\ "is_profitable" \in response.fields
        /\ response.is_profitable
        /\ response.fields \cap RunwayFigures = {}

\* C25: with fewer than three snapshots the response is the labelled
\* insufficient-data error, with neither a runway figure nor is_profitable.
C25_InsufficientDataLabelled ==
    (RunwayDone /\ Len(window) < MinSnapshots) =>
        /\ response.status_code = 400
        /\ ~response.success
        /\ "error" \in response.fields
        /\ response.error = "Insufficient historical data (need at least 3 months)"
        /\ response.fields \cap (RunwayFigures \cup {"is_profitable"}) = {}

C25_Witness ==
    /\ RunwayDone
    /\ Len(window) = MinSnapshots - 1
    /\ FlowSum(window) < 0
    /\ response.status_code = 400

\* C27: in a non-profitable result with current_cash >= 0 the figures are
\* ordered worst_case_months <= expected_months <= best_case_months, also
\* when the standard deviation exceeds the mean burn.
C27_WorstExpectedBestOrdered ==
    (NonProfitable /\ current_cash >= 0) =>
        /\ response.worst_case_months <= response.expected_months
        /\ response.expected_months <= response.best_case_months

----------------------------------------------------------------------------
(* C28 *)

\* every allocated deal has deal_value >= 0, likelihood in 0..10 and, when
\* it supplies a best_case, best_case >= deal_value
OrderedInputs ==
    \A j \in 1..Len(deals) :
        MonthOf(j) # NoMonth =>
            /\ deals[j].deal_value >= 0
            /\ deals[j].likelihood \in 0..LikelihoodScale
            /\ BestCaseSupplied(j) => pipeline[j].best_case.v >= deals[j].deal_value

\* C28: when every allocated deal has deal_value >= 0, likelihood in 0..10
\* and best_case >= deal_value wherever one is supplied, conservative <=
\* optimistic and base <= optimistic in every month and in the totals.
C28_OptimisticIsUpperBound ==
    (Done /\ OrderedInputs) =>
        /\ \A i \in 1..months :
              /\ result.months[i].conservative <= result.months[i].optimistic
              /\ result.months[i].base <= result.months[i].optimistic
        /\ result.totals.conservative <= result.totals.optimistic
        /\ result.totals.base <= result.totals.optimistic

----------------------------------------------------------------------------
(* C30 *)

Scenarios == {"conservative", "base", "optimistic"}

\* what one deal adds to a scenario figure, in thousandths
Contribution(f, deal) ==
    CASE f = "conservative" -> ConservativeAdd(deal)
      [] f = "base" -> BaseAdd(deal)
      [] f = "optimistic" -> OptimisticAdd(deal)

\* how often pipeline deal j is listed for month i
Occurrences(i, j) ==
    Cardinality({n \in 1..Len(result.deals_by_month[i]) :
                    result.deals_by_month[i][n].name = j})

\* the contributions of the deals allocated to month i
ContributionsOfMonth(f, i) ==
    SeqSum([j \in 1..Len(deals) |->
              IF MonthOf(j) = target_months[i] THEN Contribution(f, deals[j]) ELSE 0])

\* the contributions of all allocated deals
ContributionsOfAllocated(f) ==
    SeqSum([j \in 1..Len(deals) |->
              IF MonthOf(j) # NoMonth THEN Contribution(f, deals[j]) ELSE 0])

\* C30: in every result a pipeline deal is listed exactly once, in the month
\* allocate_deal_to_month returns for it, and nowhere when it returns none;
\* the deals of a month are in pipeline order; every month's figure is the
\* sum of the contributions of the deals allocated to that month, and every
\* total is the sum of the contributions of all allocated deals, each
\* counted once (reported rounded to the minor unit).
C30_MonthsPartitionAllocatedDeals ==
    Done =>
        /\ \A j \in 1..Len(deals) : \A i \in 1..months :
              Occurrences(i, j) = IF MonthOf(j) = target_months[i] THEN 1 ELSE 0
        /\ \A i \in 1..months :
              \A n, m \in 1..Len(result.deals_by_month[i]) :
                  n < m => result.deals_by_month[i][n].name
                             < result.deals_by_month[i][m].name
        /\ \A f \in Scenarios :
              /\ \A i \in 1..months :
                    /\ monthly_data[i][f] = ContributionsOfMonth(f, i)
                    /\ IsRounded(result.months[i][f], ContributionsOfMonth(f, i))
              /\ IsRounded(result.totals[f], ContributionsOfAllocated(f))

\* two deals share a month after the first one, both add to its figures,
\* and the first month holds nothing
C30_Witness ==
    /\ Done
    /\ \E i \in 2..months :
          /\ Len(result.deals_by_month[i]) = 2
          /\ result.deals_by_month[i][1].deal_value > 0
          /\ result.deals_by_month[i][2].deal_value > 0
          /\ monthly_data[i].base > 0
          /\ monthly_data[1].base = 0
          /\ result.totals.base > 0

----------------------------------------------------------------------------
(* C29 *)

\* the status that the reported gap and gap_percentage (tenths of a
\* percent) stand for
StatusOfReported(g, p) ==
    IF g <= 0 THEN "on_track"
    ELSE IF 0 < p /\ p <= AtRiskLimit * 10 THEN "at_risk"
    ELSE "behind"

\* C29: the reported fields of calculate_gap agree after rounding: status is
\* on_track exactly when the reported gap is <= 0, at_risk exactly when the
\* reported gap is > 0 and the reported gap_percentage is in (0, 15], and
\* behind otherwise; and analyse_gap returns no deal exactly when status is
\* on_track or the pipeline has no actionable deal.
C29_ReportedFieldsConsistent ==
    /\ Analysed =>
          gap_analysis.status =
              StatusOfReported(gap_analysis.gap, gap_analysis.gap_percentage)
    /\ (entry = "analyse_gap" /\ gpc = "done") =>
          (deals_to_close = <<>>
              <=> (gap_analysis.status = "on_track" \/ NamesOfActionable = {}))

====
